---- MODULE Spec2Model ----
(***************************************************************************)
(* Model of the size-aware LRU cache of Challenge-1/Task-2 (LRUCache.hpp): *)
(* the three indices mElementList, mElementMap and mElementSizeMap, the    *)
(* counter mTotalSize, the cache mutex, and the operations updateElement,  *)
(* getElement and cleanup, each thread's position in them included.        *)
(***************************************************************************)
EXTENDS Integers, Sequences, FiniteSets, TLC

\* ------------------------------------------------------------------ bounds
MaxTime == 1       \* std::time(nullptr) runs over 0..MaxTime
MaxOver == 1       \* updateElement is not called once mTotalSize would pass
                   \* the hard limit by more than this
MaxLen == 5        \* Decompress is given the strings of at most this length
MaxGhosts == 0     \* nor once mElementSizeMap would hold more than this many
                   \* pairs beyond one per key in use

\* The runs: the constructor's arguments (softSizeLimit, hardSizeLimit,
\* timeThresholdSec), and the keys, sizes and payload objects the callers
\* pass. The first is the test's (60, 100, 5) with its sizes 20, 20, 25
\* scaled down; the second has entries of size 0 and an entry larger than
\* the hard limit.
Configs ==
    { [soft |-> 3, hard |-> 4, thr |-> 0, interval |-> 0, threads |-> {"main"},
       keys |-> 1..3, sizes |-> 1..2, payloads |-> {1}],
      [soft |-> 0, hard |-> 1, thr |-> 0, interval |-> 0, threads |-> {"main"},
       keys |-> 1..2, sizes |-> 0..2, payloads |-> 1..2] }

\* The runs with a cleaning thread (cleaningIntervalMs is not 0, as in the
\* test): the owner updates and reads the cache while the sweeper cleans it,
\* and then destroys it.
SweeperConfigs ==
    { [soft |-> 3, hard |-> 4, thr |-> 0, interval |-> 1, threads |-> {"main"},
       keys |-> 1..3, sizes |-> {2}, payloads |-> {1}] }

\* The runs in which two threads of the program call the cache at the same
\* time while the sweeper cleans it.
ConcurrentConfigs ==
    { [soft |-> 1, hard |-> 2, thr |-> 0, interval |-> 1,
       threads |-> {"main", "worker"},
       keys |-> 1..2, sizes |-> 1..2, payloads |-> {1}] }

\* The runs in which the callers pass a size above the hard limit, besides
\* sizes that fit.
OversizedConfigs ==
    { [soft |-> 1, hard |-> 2, thr |-> 0, interval |-> 0, threads |-> {"main"},
       keys |-> 1..3, sizes |-> {0, 1, 3}, payloads |-> {1}] }

AllConfigs ==
    Configs \cup SweeperConfigs \cup ConcurrentConfigs \cup OversizedConfigs

Keys == UNION { c.keys : c \in AllConfigs }
Sizes == UNION { c.sizes : c \in AllConfigs }
Payloads == UNION { c.payloads : c \in AllConfigs }
Times == 0..MaxTime

\* The thread that owns the cache and calls it, a second thread of the
\* program that calls it in the concurrent runs, and the cleaning thread the
\* constructor starts when cleaningIntervalMs is not 0.
Callers == {"main"}
Workers == {"worker"}
Sweeper == "sweeper"
Threads == Callers \cup Workers \cup {Sweeper}

NoThread == "none"
NoKey == 0
NotFound == 0      \* a null std::shared_ptr<ElementType>
Absent == [kind |-> "absent"] \* the key has no pair in mElementMap
NullElem == [kind |-> "null"]  \* a pair of mElementMap holding a null shared_ptr

VARIABLES
    mElementList,       \* std::list of entries, as the sequence of their keys
    mElementMap,        \* key -> entry record, Absent or NullElem
    mElementSizeMap,    \* std::multimap<size, key>, as a sequence of <<size, key>>
    mTotalSize,
    mMaxSizeSoftLimit,
    mMaxSizeHardLimit,
    mTimeThresholdSec,
    mCacheMutex,        \* the thread holding mCacheMutex, or NoThread
    now,                \* std::time(nullptr)
    owned,              \* payload -> the external owner still holds a shared_ptr
    cleaned,            \* payload -> its cleanup() was invoked (TestElement's mark)
    pc,                 \* thread -> its position
    keyToSaveFromPurge, \* thread -> the key of its running update / cleanup, or NoKey
    elementsToClean,    \* thread -> the vector of payloads its cleanup collected
    ret,                \* thread -> <<key, result>> of the getElement whose result
                        \* it holds, or <<>>
    crashed,            \* the process was terminated by a null dereference
    mIsFinished,        \* the flag endCleaningThread sets
    mCleanerMutex,      \* the thread holding mCleanerMutex, or NoThread
    inStr,              \* Decompress: the input, a sequence of characters
    ix,                 \* Decompress: the loop index i plus 1 (sequences start at 1)
    N,                  \* Decompress: the repeat count
    repeatSequence,     \* Decompress: inside a repeat sequence
    outStrStream,       \* Decompress: the output built so far
    subStringStream,    \* Decompress: the substring to be repeated
    outStr,             \* Decompress: the caller's output string
    result,             \* Decompress: "running", "true", "false", or "none"
    nestedOpen,         \* history: a repeat sequence was opened inside another
    updateOrder,        \* history: for the keys in the cache, << key, payload
                        \* passed >> of their latest updateElement, in the
                        \* order of these calls
    keys,               \* the keys the callers use in this run
    sizes               \* the sizes the callers pass in this run

vars == << mElementList, mElementMap, mElementSizeMap, mTotalSize,
           mMaxSizeSoftLimit, mMaxSizeHardLimit, mTimeThresholdSec, mCacheMutex,
           now, owned, cleaned, pc, keyToSaveFromPurge, elementsToClean, ret,
           crashed, mIsFinished, mCleanerMutex, keys, sizes,
           inStr, ix, N, repeatSequence, outStrStream, subStringStream, outStr,
           result, nestedOpen, updateOrder >>

cacheVars == << mElementList, mElementMap, mElementSizeMap, mTotalSize >>
configVars == << mMaxSizeSoftLimit, mMaxSizeHardLimit, mTimeThresholdSec,
                keys, sizes >>
sweeperVars == << mIsFinished, mCleanerMutex >>
decompressVars == << inStr, ix, N, repeatSequence, outStrStream,
                    subStringStream, outStr, result, nestedOpen >>
lruVars == << cacheVars, configVars, sweeperVars, mCacheMutex, now, owned,
             cleaned, pc, keyToSaveFromPurge, elementsToClean, ret, crashed,
             updateOrder >>

\* ------------------------------------------------------- sequence helpers
RemoveAt(s, i) == SubSeq(s, 1, i - 1) \o SubSeq(s, i + 1, Len(s))

InsertAt(s, i, x) == SubSeq(s, 1, i) \o << x >> \o SubSeq(s, i + 1, Len(s))

SeqToSet(s) == { s[i] : i \in 1..Len(s) }

MinOf(S) == CHOOSE x \in S : \A y \in S : x <= y

\* ------------------------------------------------ std::list (mElementList)
\* mElementList.erase(cacheElement->getElementInListIterator()): the node the
\* entry of key k stored its iterator to.
ListErase(l, k) == SelectSeq(l, LAMBDA x : x # k)

\* mElementList.push_back(cacheElement)
ListPushBack(l, k) == Append(l, k)

\* mElementList.splice(mElementList.end(), mElementList, it)
ListSpliceToEnd(l, k) == Append(ListErase(l, k), k)

\* The record of the calls without the call of key k.
OrderErase(o, k) == SelectSeq(o, LAMBDA u : u[1] # k)

\* -------------------------------------------- std::multimap (mElementSizeMap)
\* insert({size, key}): pairs are kept sorted by size, and a new pair goes
\* after the pairs of equal size already there (upper bound).
SizeMapInsert(m, s, k) ==
    InsertAt(m, Cardinality({ i \in 1..Len(m) : m[i][1] <= s }), << s, k >>)

\* lower bound of size s: the index of the first pair of size s, 0 if none.
\* This is equal_range(s).first, and what find(s) returns in libstdc++, libc++
\* and the MSVC library (all three implement find by lower_bound).
SizeMapFind(m, s) ==
    LET hits == { i \in 1..Len(m) : m[i][1] = s }
    IN IF hits = {} THEN 0 ELSE MinOf(hits)

\* Mutant of SizeMapFindPair: the first pair of size s is taken, whatever
\* its key.
SizeMapFindAnyKey(m, s, k) == SizeMapFind(m, s)

\* the walk over equal_range(s) looking for it->second == key: the index of
\* the first pair <<s, k>>, 0 if none.
SizeMapFindPair(m, s, k) ==
    LET hits == { i \in 1..Len(m) : m[i] = << s, k >> }
    IN IF hits = {} THEN 0 ELSE MinOf(hits)

SizeMapErase(m, i) == IF i = 0 THEN m ELSE RemoveAt(m, i)

\* mElementSizeMap.rbegin()->first
SizeMapLargest(m) == m[Len(m)][1]

\* ------------------------------------------------------------- payloads
\* A payload is alive while some shared_ptr to it exists: the owner's, one
\* held in a running cleanup's elementsToClean, or one getElement returned
\* that its caller still holds.
Alive(p) ==
    \/ owned[p]
    \/ \E t \in Threads : p \in SeqToSet(elementsToClean[t])
    \/ \E t \in Threads : ret[t] # << >> /\ ret[t][2] = p

\* weak_ptr::lock()
Lock(p) == IF Alive(p) THEN p ELSE NotFound

\* --------------------------------------------------------------- entries
\* LRUCacheElement: mElementSize, mLastAccessTime, mWeakPointerElement.
Entry(s, t, p) == [kind |-> "elem", size |-> s, time |-> t, payload |-> p]

IsEntry(e) == e.kind = "elem"

MapKeys == { k \in Keys : mElementMap[k] # Absent }

ListKeys == SeqToSet(mElementList)

SizeMapKeys == { mElementSizeMap[i][2] : i \in 1..Len(mElementSizeMap) }

\* The state the constructor leaves for the run c: empty indices, the limits
\* and the threshold from its arguments, and the cleaning thread started, at
\* the top of runCleanerThreadLoop, when cleaningIntervalMs is not 0.
LRUCache(c) ==
    /\ mElementList = << >>
    /\ mElementMap = [k \in Keys |-> Absent]
    /\ mElementSizeMap = << >>
    /\ mTotalSize = 0
    /\ mMaxSizeSoftLimit = c.soft
    /\ mMaxSizeHardLimit = c.hard
    /\ mTimeThresholdSec = c.thr
    /\ keys = c.keys
    /\ sizes = c.sizes
    /\ owned = [p \in Payloads |-> p \in c.payloads]
    /\ mCacheMutex = NoThread
    /\ now = 0
    /\ cleaned = [p \in Payloads |-> FALSE]
    /\ pc = [t \in Threads |->
                IF t \in c.threads THEN "idle"
                ELSE IF t = Sweeper /\ c.interval # 0 THEN "sw_lock"
                ELSE "off"]
    /\ keyToSaveFromPurge = [t \in Threads |-> NoKey]
    /\ elementsToClean = [t \in Threads |-> << >>]
    /\ ret = [t \in Threads |-> << >>]
    /\ crashed = FALSE
    /\ mIsFinished = FALSE
    /\ mCleanerMutex = NoThread
    /\ updateOrder = << >>

\* No call of Decompress is under way.
NoDecompress ==
    /\ inStr = << >>
    /\ ix = 1
    /\ N = 0
    /\ repeatSequence = FALSE
    /\ outStrStream = << >>
    /\ subStringStream = << >>
    /\ outStr = << >>
    /\ result = "none"
    /\ nestedOpen = FALSE

Init == NoDecompress /\ \E c \in Configs : LRUCache(c)

\* ------------------------------------------------------------ environment
\* The clock advances by one second.
Tick ==
    /\ ~crashed
    /\ now < MaxTime
    /\ now' = now + 1
    /\ UNCHANGED << cacheVars, configVars, decompressVars,
                    updateOrder, sweeperVars,
                    mCacheMutex, owned, cleaned, pc,
                    keyToSaveFromPurge, elementsToClean, ret, crashed >>

\* The external owner drops its shared_ptr to payload p.
Release(p) ==
    /\ ~crashed
    /\ owned[p]
    /\ owned' = [owned EXCEPT ![p] = FALSE]
    /\ UNCHANGED << cacheVars, configVars, decompressVars,
                    updateOrder, sweeperVars,
                    mCacheMutex, now, cleaned, pc,
                    keyToSaveFromPurge, elementsToClean, ret, crashed >>

\* ----------------------------------------------------------- updateElement
\* Mutant of UpdateElement: the entry of a key in the cache takes the payload
\* passed to the call.
UpdateElementReplacing(t, p, key, size) ==
    LET old == mElementMap[key]
        found == old # Absent
        oldSize == IF found THEN old.size ELSE 0
        weak == p
        sizeMap1 == IF found
                    THEN SizeMapErase(mElementSizeMap,
                                      SizeMapFindPair(mElementSizeMap, oldSize, key))
                    ELSE mElementSizeMap
        list1 == IF found THEN ListErase(mElementList, key) ELSE mElementList
    IN
    /\ ~crashed
    /\ pc[t] = "idle"
    /\ mCacheMutex = NoThread
    /\ owned[p]
    /\ mTotalSize - oldSize + size <= mMaxSizeHardLimit + MaxOver
    /\ Len(sizeMap1) < Cardinality(keys) + MaxGhosts
    /\ mElementMap' = [mElementMap EXCEPT ![key] = Entry(size, now, weak)]
    /\ mTotalSize' = mTotalSize - oldSize + size
    /\ mElementList' = ListPushBack(list1, key)
    /\ mElementSizeMap' = SizeMapInsert(sizeMap1, size, key)
    /\ pc' = [pc EXCEPT ![t] = "upd_check"]
    /\ keyToSaveFromPurge' = [keyToSaveFromPurge EXCEPT ![t] = key]
    /\ updateOrder' = Append(OrderErase(updateOrder, key), << key, p >>)
    /\ UNCHANGED << configVars, decompressVars, sweeperVars, mCacheMutex, now,
                    owned, cleaned,
                    elementsToClean, ret, crashed >>

\* The critical section of updateElement(element, key, size), lock to unlock.
\* The caller holds a shared_ptr to the payload it passes.
UpdateElement(t, p, key, size) ==
    LET old == mElementMap[key]
        found == old # Absent
        oldSize == IF found THEN old.size ELSE 0
        \* the entry keeps the weak pointer it was constructed with
        weak == IF found THEN old.payload ELSE p
        sizeMap1 == IF found
                    THEN SizeMapErase(mElementSizeMap,
                                      SizeMapFindPair(mElementSizeMap, oldSize, key))
                    ELSE mElementSizeMap
        list1 == IF found THEN ListErase(mElementList, key) ELSE mElementList
    IN
    /\ ~crashed
    /\ pc[t] = "idle"
    /\ mCacheMutex = NoThread
    /\ owned[p]
    /\ mTotalSize - oldSize + size <= mMaxSizeHardLimit + MaxOver
    /\ Len(sizeMap1) < Cardinality(keys) + MaxGhosts
    /\ mElementMap' = [mElementMap EXCEPT ![key] = Entry(size, now, weak)]
    /\ mTotalSize' = mTotalSize - oldSize + size
    /\ mElementList' = ListPushBack(list1, key)
    /\ mElementSizeMap' = SizeMapInsert(sizeMap1, size, key)
    /\ pc' = [pc EXCEPT ![t] = "upd_check"]
    /\ keyToSaveFromPurge' = [keyToSaveFromPurge EXCEPT ![t] = key]
    /\ updateOrder' = Append(OrderErase(updateOrder, key), << key, p >>)
    /\ UNCHANGED << configVars, decompressVars, sweeperVars, mCacheMutex, now,
                    owned, cleaned,
                    elementsToClean, ret, crashed >>

\* Mutant of UpdateCheck: the total is compared with the soft limit.
UpdateCheckAgainstSoftLimit(t) ==
    /\ ~crashed
    /\ pc[t] = "upd_check"
    /\ IF mTotalSize > mMaxSizeSoftLimit
       THEN /\ pc' = [pc EXCEPT ![t] = "cl_lock"]
            /\ UNCHANGED keyToSaveFromPurge
       ELSE /\ pc' = [pc EXCEPT ![t] = "idle"]
            /\ keyToSaveFromPurge' = [keyToSaveFromPurge EXCEPT ![t] = NoKey]
    /\ UNCHANGED << cacheVars, configVars, decompressVars,
                    updateOrder, sweeperVars,
                    mCacheMutex, now, owned, cleaned,
                    elementsToClean, ret, crashed >>

\* Mutant of UpdateCheck: the comparison is off by one (a total one above
\* the hard limit passes).
UpdateCheckOffByOne(t) ==
    /\ ~crashed
    /\ pc[t] = "upd_check"
    /\ IF mTotalSize > mMaxSizeHardLimit + 1
       THEN /\ pc' = [pc EXCEPT ![t] = "cl_lock"]
            /\ UNCHANGED keyToSaveFromPurge
       ELSE /\ pc' = [pc EXCEPT ![t] = "idle"]
            /\ keyToSaveFromPurge' = [keyToSaveFromPurge EXCEPT ![t] = NoKey]
    /\ UNCHANGED << cacheVars, configVars, decompressVars,
                    updateOrder, sweeperVars,
                    mCacheMutex, now, owned, cleaned,
                    elementsToClean, ret, crashed >>

\* if (mTotalSize > mMaxSizeHardLimit) cleanup(&key); read without the mutex.
UpdateCheck(t) ==
    /\ ~crashed
    /\ pc[t] = "upd_check"
    /\ IF mTotalSize > mMaxSizeHardLimit
       THEN /\ pc' = [pc EXCEPT ![t] = "cl_lock"]
            /\ UNCHANGED keyToSaveFromPurge
       ELSE /\ pc' = [pc EXCEPT ![t] = "idle"]
            /\ keyToSaveFromPurge' = [keyToSaveFromPurge EXCEPT ![t] = NoKey]
    /\ UNCHANGED << cacheVars, configVars, decompressVars,
                    updateOrder, sweeperVars,
                    mCacheMutex, now, owned, cleaned,
                    elementsToClean, ret, crashed >>

\* Mutant of GetElement: the lookup is mElementMap[key], which inserts a null
\* pointer for a key the map does not hold.
GetElementInserting(t, key) ==
    LET e == mElementMap[key] IN
    /\ ~crashed
    /\ pc[t] \in {"idle", "get_ret"}
    /\ mCacheMutex = NoThread
    /\ e # NullElem
    /\ IF e # Absent
       THEN /\ mElementMap' = [mElementMap EXCEPT ![key].time = now]
            /\ mElementList' = ListSpliceToEnd(mElementList, key)
            /\ ret' = [ret EXCEPT ![t] = << key, Lock(e.payload) >>]
       ELSE /\ ret' = [ret EXCEPT ![t] = << key, NotFound >>]
            /\ mElementMap' = [mElementMap EXCEPT ![key] = NullElem]
            /\ UNCHANGED mElementList
    /\ pc' = [pc EXCEPT ![t] = "get_ret"]
    /\ UNCHANGED << mElementSizeMap, mTotalSize, configVars, decompressVars,
                    updateOrder,
                    sweeperVars,
                    mCacheMutex, now,
                    owned, cleaned, keyToSaveFromPurge, elementsToClean,
                    crashed >>

\* Mutant of GetElement: a hit takes the entry out of the Key Index and the
\* Recency Index.
GetElementTaking(t, key) ==
    LET e == mElementMap[key] IN
    /\ ~crashed
    /\ pc[t] \in {"idle", "get_ret"}
    /\ mCacheMutex = NoThread
    /\ e # NullElem
    /\ IF e # Absent
       THEN /\ mElementMap' = [mElementMap EXCEPT ![key] = Absent]
            /\ mElementList' = ListErase(mElementList, key)
            /\ ret' = [ret EXCEPT ![t] = << key, Lock(e.payload) >>]
       ELSE /\ ret' = [ret EXCEPT ![t] = << key, NotFound >>]
            /\ UNCHANGED << mElementMap, mElementList >>
    /\ pc' = [pc EXCEPT ![t] = "get_ret"]
    /\ UNCHANGED << mElementSizeMap, mTotalSize, configVars, decompressVars,
                    updateOrder,
                    sweeperVars,
                    mCacheMutex, now,
                    owned, cleaned, keyToSaveFromPurge, elementsToClean,
                    crashed >>

\* Mutant of GetElement: the weak pointer is locked first, and an entry whose
\* payload is gone is left as it is.
GetElementLockFirst(t, key) ==
    LET e == mElementMap[key] IN
    /\ ~crashed
    /\ pc[t] \in {"idle", "get_ret"}
    /\ mCacheMutex = NoThread
    /\ e # NullElem
    /\ IF e # Absent /\ Lock(e.payload) # NotFound
       THEN /\ mElementMap' = [mElementMap EXCEPT ![key].time = now]
            /\ mElementList' = ListSpliceToEnd(mElementList, key)
            /\ ret' = [ret EXCEPT ![t] = << key, Lock(e.payload) >>]
       ELSE /\ ret' = [ret EXCEPT ![t] = << key, NotFound >>]
            /\ UNCHANGED << mElementMap, mElementList >>
    /\ pc' = [pc EXCEPT ![t] = "get_ret"]
    /\ UNCHANGED << mElementSizeMap, mTotalSize, configVars, decompressVars,
                    updateOrder,
                    sweeperVars,
                    mCacheMutex, now,
                    owned, cleaned, keyToSaveFromPurge, elementsToClean,
                    crashed >>

\* Mutant of GetElement: the access time is refreshed and the entry is left
\* at its place in the list.
GetElementNoSplice(t, key) ==
    LET e == mElementMap[key] IN
    /\ ~crashed
    /\ pc[t] \in {"idle", "get_ret"}
    /\ mCacheMutex = NoThread
    /\ IF e # Absent
       THEN /\ mElementMap' = [mElementMap EXCEPT ![key].time = now]
            /\ ret' = [ret EXCEPT ![t] = << key, Lock(e.payload) >>]
       ELSE /\ ret' = [ret EXCEPT ![t] = << key, NotFound >>]
            /\ UNCHANGED mElementMap
    /\ pc' = [pc EXCEPT ![t] = "get_ret"]
    /\ UNCHANGED << mElementList, mElementSizeMap, mTotalSize, configVars,
                    decompressVars, updateOrder,
                    sweeperVars, mCacheMutex, now, owned, cleaned,
                    keyToSaveFromPurge, elementsToClean, crashed >>

\* ------------------------------------------------------------- getElement
\* getElement(key), lock to unlock; the caller keeps the result in ret[t]. It
\* may call getElement again while it still holds the previous result.
GetElement(t, key) ==
    LET e == mElementMap[key] IN
    /\ ~crashed
    /\ pc[t] \in {"idle", "get_ret"}
    /\ mCacheMutex = NoThread
    /\ IF e # Absent
       THEN /\ mElementMap' = [mElementMap EXCEPT ![key].time = now]
            /\ mElementList' = ListSpliceToEnd(mElementList, key)
            /\ ret' = [ret EXCEPT ![t] = << key, Lock(e.payload) >>]
       ELSE /\ ret' = [ret EXCEPT ![t] = << key, NotFound >>]
            /\ UNCHANGED << mElementMap, mElementList >>
    /\ pc' = [pc EXCEPT ![t] = "get_ret"]
    /\ UNCHANGED << mElementSizeMap, mTotalSize, configVars, decompressVars,
                    updateOrder,
                    sweeperVars,
                    mCacheMutex, now,
                    owned, cleaned, keyToSaveFromPurge, elementsToClean,
                    crashed >>

\* The caller drops the shared_ptr getElement returned.
GetDrop(t) ==
    /\ ~crashed
    /\ pc[t] = "get_ret"
    /\ pc' = [pc EXCEPT ![t] = "idle"]
    /\ ret' = [ret EXCEPT ![t] = << >>]
    /\ UNCHANGED << cacheVars, configVars, decompressVars,
                    updateOrder, sweeperVars,
                    mCacheMutex, now, owned, cleaned,
                    keyToSaveFromPurge, elementsToClean, crashed >>

\* ---------------------------------------------------------------- cleanup
\* cleanup() is entered with no key to save: cleanup is public, and the
\* sweeper calls it this way.
CleanupCall(t) ==
    /\ ~crashed
    /\ pc[t] = "idle"
    /\ pc' = [pc EXCEPT ![t] = "cl_lock"]
    /\ keyToSaveFromPurge' = [keyToSaveFromPurge EXCEPT ![t] = NoKey]
    /\ UNCHANGED << cacheVars, configVars, decompressVars,
                    updateOrder, sweeperVars,
                    mCacheMutex, now, owned, cleaned,
                    elementsToClean, ret, crashed >>

\* std::lock_guard<std::mutex> lockGuard(mCacheMutex) of cleanup.
CleanupLock(t) ==
    /\ ~crashed
    /\ pc[t] = "cl_lock"
    /\ mCacheMutex = NoThread
    /\ mCacheMutex' = t
    /\ pc' = [pc EXCEPT ![t] = "cl_loop"]
    /\ elementsToClean' = [elementsToClean EXCEPT ![t] = << >>]
    /\ UNCHANGED << cacheVars, configVars, decompressVars,
                    updateOrder, sweeperVars, now,
                    owned, cleaned,
                    keyToSaveFromPurge, ret, crashed >>

\* Mutant of CleanupLoopCond: the loop also runs with mTotalSize at the
\* soft limit.
CleanupLoopCondInclusive ==
    Len(mElementList) > 0 /\ mTotalSize >= mMaxSizeSoftLimit

\* Mutant of CleanupLoopCond: the loop runs down to the hard limit only.
CleanupLoopCondHardLimit ==
    Len(mElementList) > 0 /\ mTotalSize > mMaxSizeHardLimit

\* while (mElementList.size() && mTotalSize > mMaxSizeSoftLimit)
CleanupLoopCond == Len(mElementList) > 0 /\ mTotalSize > mMaxSizeSoftLimit

\* std::time(nullptr) - front->getLastAccessTime() > mTimeThresholdSec; the
\* list and the map share the entry object, read here through the map.
FrontIsStale ==
    now - mElementMap[Head(mElementList)].time > mTimeThresholdSec

\* Mutant of Purge: the size is subtracted for the key to save as well.
PurgeSubtractingAlways(t, k, e) ==
    /\ mElementMap' = [mElementMap EXCEPT ![k] = Absent]
    /\ updateOrder' = OrderErase(updateOrder, k)
    /\ mTotalSize' = mTotalSize - e.size
    /\ IF keyToSaveFromPurge[t] = NoKey \/ keyToSaveFromPurge[t] # k
       THEN elementsToClean' =
               [elementsToClean EXCEPT
                  ![t] = IF Lock(e.payload) # NotFound
                         THEN Append(@, e.payload) ELSE @]
       ELSE UNCHANGED elementsToClean

\* The tail of one loop iteration, for the removed entry e of key k:
\* mElementMap.erase, and unless k is the key to save, the collection of the
\* payload and the subtraction of the size.
Purge(t, k, e) ==
    /\ mElementMap' = [mElementMap EXCEPT ![k] = Absent]
    /\ updateOrder' = OrderErase(updateOrder, k)
    /\ IF keyToSaveFromPurge[t] = NoKey \/ keyToSaveFromPurge[t] # k
       THEN /\ elementsToClean' =
                  [elementsToClean EXCEPT
                     ![t] = IF Lock(e.payload) # NotFound
                            THEN Append(@, e.payload) ELSE @]
            /\ mTotalSize' = mTotalSize - e.size
       ELSE UNCHANGED << elementsToClean, mTotalSize >>

\* Mutant of CleanupFresh: the entry at the back of the list is removed.
CleanupFreshFromTail(t) ==
    LET k == mElementList[Len(mElementList)]
        e == mElementMap[k]
    IN
    /\ ~crashed
    /\ pc[t] = "cl_loop"
    /\ mCacheMutex = t
    /\ CleanupLoopCond
    /\ ~FrontIsStale
    /\ mElementList' = SubSeq(mElementList, 1, Len(mElementList) - 1)
    /\ mElementSizeMap' =
          SizeMapErase(mElementSizeMap, SizeMapFind(mElementSizeMap, e.size))
    /\ Purge(t, k, e)
    /\ UNCHANGED << configVars, decompressVars, sweeperVars, mCacheMutex, now,
                    owned, cleaned,
                    pc, keyToSaveFromPurge, ret, crashed >>

\* One iteration whose front entry is not stale: the front is popped, and the
\* pair that find(size) returns is erased from the size map.
CleanupFresh(t) ==
    LET k == Head(mElementList)
        e == mElementMap[k]
    IN
    /\ ~crashed
    /\ pc[t] = "cl_loop"
    /\ mCacheMutex = t
    /\ CleanupLoopCond
    /\ ~FrontIsStale
    /\ mElementList' = Tail(mElementList)
    /\ mElementSizeMap' =
          SizeMapErase(mElementSizeMap, SizeMapFind(mElementSizeMap, e.size))
    /\ Purge(t, k, e)
    /\ UNCHANGED << configVars, decompressVars, sweeperVars,
                    mCacheMutex, now, owned, cleaned, pc,
                    keyToSaveFromPurge, ret, crashed >>

\* The pair the stale branch selects: the first pair of the largest size.
StaleIndex == SizeMapFind(mElementSizeMap, SizeMapLargest(mElementSizeMap))

\* One iteration whose front entry is stale: the entry named by the first
\* pair of the largest size is removed.
CleanupStale(t) ==
    LET i == StaleIndex
        k == mElementSizeMap[i][2]
        e == mElementMap[k]
    IN
    /\ ~crashed
    /\ pc[t] = "cl_loop"
    /\ mCacheMutex = t
    /\ CleanupLoopCond
    /\ FrontIsStale
    /\ mElementSizeMap # << >>
    /\ IsEntry(e)
    /\ mElementSizeMap' = SizeMapErase(mElementSizeMap, i)
    /\ mElementList' = ListErase(mElementList, k)
    /\ Purge(t, k, e)
    /\ UNCHANGED << configVars, decompressVars, sweeperVars,
                    mCacheMutex, now, owned, cleaned, pc,
                    keyToSaveFromPurge, ret, crashed >>

\* The stale branch when the selected pair names a key mElementMap does not
\* hold: mElementMap[key] inserts a null shared_ptr, the pair is erased, and
\* cacheElement->getElementInListIterator() dereferences the null pointer.
\* The process is terminated (SIGSEGV, or the library's assertion).
CleanupStaleNull(t) ==
    LET i == StaleIndex
        k == mElementSizeMap[i][2]
    IN
    /\ ~crashed
    /\ pc[t] = "cl_loop"
    /\ mCacheMutex = t
    /\ CleanupLoopCond
    /\ FrontIsStale
    /\ mElementSizeMap # << >>
    /\ ~IsEntry(mElementMap[k])
    /\ mElementMap' = [mElementMap EXCEPT ![k] = NullElem]
    /\ mElementSizeMap' = SizeMapErase(mElementSizeMap, i)
    /\ crashed' = TRUE
    /\ UNCHANGED << mElementList, mTotalSize, configVars, decompressVars,
                    updateOrder,
                    sweeperVars,
                    mCacheMutex, now,
                    owned, cleaned, pc, keyToSaveFromPurge, elementsToClean,
                    ret >>

\* The loop ends and the lock_guard releases mCacheMutex.
CleanupUnlock(t) ==
    /\ ~crashed
    /\ pc[t] = "cl_loop"
    /\ mCacheMutex = t
    /\ ~CleanupLoopCond
    /\ mCacheMutex' = NoThread
    /\ pc' = [pc EXCEPT ![t] = "cl_clean"]
    /\ UNCHANGED << cacheVars, configVars, decompressVars,
                    updateOrder, sweeperVars, now,
                    owned, cleaned,
                    keyToSaveFromPurge, elementsToClean, ret, crashed >>

\* One turn of the loop over elementsToClean: elementToClean->cleanup().
CleanCallback(t) ==
    LET p == Head(elementsToClean[t]) IN
    /\ ~crashed
    /\ pc[t] = "cl_clean"
    /\ elementsToClean[t] # << >>
    /\ elementsToClean' = [elementsToClean EXCEPT ![t] = Tail(@)]
    /\ cleaned' = [cleaned EXCEPT ![p] = TRUE]
    /\ UNCHANGED << cacheVars, configVars, decompressVars,
                    updateOrder, sweeperVars,
                    mCacheMutex, now, owned, pc,
                    keyToSaveFromPurge, ret, crashed >>

\* cleanup returns: to its caller (and with it the updateElement that called
\* it), or to runCleanerThreadLoop at the test of mIsFinished.
CleanupReturn(t) ==
    /\ ~crashed
    /\ pc[t] = "cl_clean"
    /\ elementsToClean[t] = << >>
    /\ pc' = [pc EXCEPT ![t] = IF t = Sweeper THEN "sw_check" ELSE "idle"]
    /\ keyToSaveFromPurge' = [keyToSaveFromPurge EXCEPT ![t] = NoKey]
    /\ UNCHANGED << cacheVars, configVars, decompressVars,
                    updateOrder, sweeperVars,
                    mCacheMutex, now, owned, cleaned,
                    elementsToClean, ret, crashed >>

\* ------------------------------------------------- getNumberOfElements
\* getNumberOfElements(): return mElementList.size(), with no lock taken. The
\* caller keeps the count as the third component of ret[t].
GetNumberOfElements(t) ==
    /\ ~crashed
    /\ pc[t] = "idle"
    /\ ret' = [ret EXCEPT ![t] = << NoKey, NotFound, Len(mElementList) >>]
    /\ pc' = [pc EXCEPT ![t] = "num_ret"]
    /\ UNCHANGED << cacheVars, configVars, decompressVars,
                    updateOrder, sweeperVars,
                    mCacheMutex, now,
                    owned, cleaned, keyToSaveFromPurge, elementsToClean,
                    crashed >>

\* The caller is done with the count.
NumDrop(t) ==
    /\ ~crashed
    /\ pc[t] = "num_ret"
    /\ ret' = [ret EXCEPT ![t] = << >>]
    /\ pc' = [pc EXCEPT ![t] = "idle"]
    /\ UNCHANGED << cacheVars, configVars, decompressVars,
                    updateOrder, sweeperVars,
                    mCacheMutex, now,
                    owned, cleaned, keyToSaveFromPurge, elementsToClean,
                    crashed >>

\* --------------------------------------------------- runCleanerThreadLoop
\* std::unique_lock<std::mutex> uniqueLock(mCleanerMutex), at the top of an
\* iteration of while (true).
SweeperLock ==
    /\ ~crashed
    /\ pc[Sweeper] = "sw_lock"
    /\ mCleanerMutex = NoThread
    /\ mCleanerMutex' = Sweeper
    /\ pc' = [pc EXCEPT ![Sweeper] = "sw_locked"]
    /\ UNCHANGED << cacheVars, configVars, decompressVars,
                    updateOrder, mIsFinished,
                    mCacheMutex, now,
                    owned, cleaned, keyToSaveFromPurge, elementsToClean, ret,
                    crashed >>

\* mCleanerCV.wait_for(uniqueLock, interval) begins: the mutex is released
\* and the thread blocks. No predicate is tested before the wait.
SweeperWait ==
    /\ ~crashed
    /\ pc[Sweeper] = "sw_locked"
    /\ mCleanerMutex' = NoThread
    /\ pc' = [pc EXCEPT ![Sweeper] = "sw_wait"]
    /\ UNCHANGED << cacheVars, configVars, decompressVars,
                    updateOrder, mIsFinished,
                    mCacheMutex, now,
                    owned, cleaned, keyToSaveFromPurge, elementsToClean, ret,
                    crashed >>

\* The interval elapses while the thread waits: wait_for is to return
\* std::cv_status::timeout.
SweeperTimeout ==
    /\ ~crashed
    /\ pc[Sweeper] = "sw_wait"
    /\ pc' = [pc EXCEPT ![Sweeper] = "sw_timedout"]
    /\ UNCHANGED << cacheVars, configVars, decompressVars,
                    updateOrder, sweeperVars,
                    mCacheMutex, now,
                    owned, cleaned, keyToSaveFromPurge, elementsToClean, ret,
                    crashed >>

\* The waiting thread is woken with no notification (a spurious wakeup):
\* wait_for is to return std::cv_status::no_timeout.
SweeperSpurious ==
    /\ ~crashed
    /\ pc[Sweeper] = "sw_wait"
    /\ pc' = [pc EXCEPT ![Sweeper] = "sw_notified"]
    /\ UNCHANGED << cacheVars, configVars, decompressVars,
                    updateOrder, sweeperVars,
                    mCacheMutex, now,
                    owned, cleaned, keyToSaveFromPurge, elementsToClean, ret,
                    crashed >>

\* wait_for takes mCleanerMutex again and returns: on a timeout cleanup() is
\* called (with mCleanerMutex held), otherwise the loop goes on to the test
\* of mIsFinished.
SweeperWake ==
    /\ ~crashed
    /\ pc[Sweeper] \in {"sw_timedout", "sw_notified"}
    /\ mCleanerMutex = NoThread
    /\ mCleanerMutex' = Sweeper
    /\ pc' = [pc EXCEPT ![Sweeper] =
                 IF pc[Sweeper] = "sw_timedout" THEN "cl_lock" ELSE "sw_check"]
    /\ keyToSaveFromPurge' = [keyToSaveFromPurge EXCEPT ![Sweeper] = NoKey]
    /\ UNCHANGED << cacheVars, configVars, decompressVars,
                    updateOrder, mIsFinished,
                    mCacheMutex, now,
                    owned, cleaned, elementsToClean, ret, crashed >>

\* if (mIsFinished) break; then uniqueLock goes out of scope: the loop is left
\* or its next iteration begins.
SweeperCheck ==
    /\ ~crashed
    /\ pc[Sweeper] = "sw_check"
    /\ mCleanerMutex' = NoThread
    /\ pc' = [pc EXCEPT ![Sweeper] =
                 IF mIsFinished THEN "sw_done" ELSE "sw_lock"]
    /\ UNCHANGED << cacheVars, configVars, decompressVars,
                    updateOrder, mIsFinished,
                    mCacheMutex, now,
                    owned, cleaned, keyToSaveFromPurge, elementsToClean, ret,
                    crashed >>

\* ------------------------------------------------------------- ~LRUCache
\* The owner destroys the cache; mCleanerThread is set.
DestructorCall(t) ==
    /\ ~crashed
    /\ pc[t] = "idle"
    /\ pc[Sweeper] # "off"
    /\ pc' = [pc EXCEPT ![t] = "dt_lock"]
    /\ UNCHANGED << cacheVars, configVars, decompressVars,
                    updateOrder, sweeperVars,
                    mCacheMutex, now,
                    owned, cleaned, keyToSaveFromPurge, elementsToClean, ret,
                    crashed >>

\* Mutant of EndCleaningThread: mIsFinished is set with no lock taken.
EndCleaningThreadUnlocked(t) ==
    /\ ~crashed
    /\ pc[t] = "dt_lock"
    /\ mIsFinished' = TRUE
    /\ pc' = [pc EXCEPT ![t] = "dt_notify"]
    /\ UNCHANGED << cacheVars, configVars, decompressVars, updateOrder,
                    mCleanerMutex, mCacheMutex, now, owned, cleaned,
                    keyToSaveFromPurge, elementsToClean, ret, crashed >>

\* endCleaningThread, its block: mIsFinished = true under mCleanerMutex.
EndCleaningThread(t) ==
    /\ ~crashed
    /\ pc[t] = "dt_lock"
    /\ mCleanerMutex = NoThread
    /\ mIsFinished' = TRUE
    /\ pc' = [pc EXCEPT ![t] = "dt_notify"]
    /\ UNCHANGED << cacheVars, configVars, decompressVars,
                    updateOrder, mCleanerMutex,
                    mCacheMutex, now,
                    owned, cleaned, keyToSaveFromPurge, elementsToClean, ret,
                    crashed >>

\* mCleanerCV.notify_all(): a thread blocked in wait_for is woken; there is
\* nothing to wake when the sweeper is anywhere else.
NotifyAll(t) ==
    /\ ~crashed
    /\ pc[t] = "dt_notify"
    /\ pc' = [pc EXCEPT ![t] = "dt_join",
                        ![Sweeper] = IF @ = "sw_wait" THEN "sw_notified" ELSE @]
    /\ UNCHANGED << cacheVars, configVars, decompressVars,
                    updateOrder, sweeperVars,
                    mCacheMutex, now,
                    owned, cleaned, keyToSaveFromPurge, elementsToClean, ret,
                    crashed >>

\* mCleanerThread->join() returns once runCleanerThreadLoop has returned.
Join(t) ==
    /\ ~crashed
    /\ pc[t] = "dt_join"
    /\ pc[Sweeper] = "sw_done"
    /\ pc' = [pc EXCEPT ![t] = "destroyed"]
    /\ UNCHANGED << cacheVars, configVars, decompressVars,
                    updateOrder, sweeperVars,
                    mCacheMutex, now,
                    owned, cleaned, keyToSaveFromPurge, elementsToClean, ret,
                    crashed >>

Next ==
    \/ Tick
    \/ \E p \in Payloads : Release(p)
    \/ \E t \in Callers, p \in Payloads, k \in keys, s \in sizes :
           UpdateElement(t, p, k, s)
    \/ \E t \in Callers : UpdateCheck(t)
    \/ \E t \in Callers, k \in keys : GetElement(t, k)
    \/ \E t \in Callers : GetDrop(t)
    \/ \E t \in Callers : CleanupCall(t)
    \/ \E t \in Callers : CleanupLock(t)
    \/ \E t \in Callers : CleanupFresh(t)
    \/ \E t \in Callers : CleanupStale(t)
    \/ \E t \in Callers : CleanupStaleNull(t)
    \/ \E t \in Callers : CleanupUnlock(t)
    \/ \E t \in Callers : CleanCallback(t)
    \/ \E t \in Callers : CleanupReturn(t)

Spec == Init /\ [][Next]_vars

\* ------------------------------- the cache given entries above its limit
OversizedInit == NoDecompress /\ \E c \in OversizedConfigs : LRUCache(c)

OversizedSpec == OversizedInit /\ [][Next]_vars

\* ------------------------------------------- the cache with its sweeper
SweeperInit == NoDecompress /\ \E c \in SweeperConfigs : LRUCache(c)

\* The steps of the cleaning thread: its loop and the cleanup() it calls.
SweeperStep ==
    \/ SweeperLock
    \/ SweeperWait
    \/ SweeperTimeout
    \/ SweeperSpurious
    \/ SweeperWake
    \/ CleanupLock(Sweeper)
    \/ CleanupFresh(Sweeper)
    \/ CleanupStale(Sweeper)
    \/ CleanupStaleNull(Sweeper)
    \/ CleanupUnlock(Sweeper)
    \/ CleanCallback(Sweeper)
    \/ CleanupReturn(Sweeper)
    \/ SweeperCheck

\* The steps of the owner's destructor.
DestructorStep ==
    \E t \in Callers :
        \/ DestructorCall(t)
        \/ EndCleaningThread(t)
        \/ NotifyAll(t)
        \/ Join(t)

SweeperNext ==
    \/ Next
    \/ \E t \in Callers : GetNumberOfElements(t)
    \/ \E t \in Callers : NumDrop(t)
    \/ SweeperStep
    \/ DestructorStep

SweeperSpec == SweeperInit /\ [][SweeperNext]_vars

\* The same under fair scheduling: a thread that can take a step takes one.
\* The cleaning thread is scheduled and its wait_for does not wait longer than
\* the interval; the owner's destructor runs on.
SweeperFairSpec ==
    SweeperSpec /\ WF_vars(SweeperStep) /\ WF_vars(DestructorStep)

\* ------------------------------------------ the cache called by two threads
ConcurrentInit == NoDecompress /\ \E c \in ConcurrentConfigs : LRUCache(c)

\* The critical section of t's updateElement of a key in the cache, with the
\* unlocked comparison of thread r (the end of r's own updateElement) falling
\* between its mTotalSize -= getSize() and its mTotalSize += size: r reads
\* the total without the old size of the entry.
UpdateElementRaced(t, p, key, size, r) ==
    LET old == mElementMap[key]
        sizeMap1 == SizeMapErase(mElementSizeMap,
                                 SizeMapFindPair(mElementSizeMap, old.size, key))
        over == mTotalSize - old.size > mMaxSizeHardLimit
    IN
    /\ ~crashed
    /\ t # r
    /\ pc[t] = "idle"
    /\ pc[r] = "upd_check"
    /\ mCacheMutex = NoThread
    /\ owned[p]
    /\ IsEntry(old)
    /\ mTotalSize - old.size + size <= mMaxSizeHardLimit + MaxOver
    /\ Len(sizeMap1) < Cardinality(keys) + MaxGhosts
    /\ mElementMap' = [mElementMap EXCEPT ![key] = Entry(size, now, old.payload)]
    /\ mTotalSize' = mTotalSize - old.size + size
    /\ mElementList' = ListPushBack(ListErase(mElementList, key), key)
    /\ mElementSizeMap' = SizeMapInsert(sizeMap1, size, key)
    /\ pc' = [pc EXCEPT ![t] = "upd_check",
                        ![r] = IF over THEN "cl_lock" ELSE "idle"]
    /\ keyToSaveFromPurge' =
          [keyToSaveFromPurge EXCEPT ![t] = key,
                                     ![r] = IF over THEN @ ELSE NoKey]
    /\ updateOrder' = Append(OrderErase(updateOrder, key), << key, p >>)
    /\ UNCHANGED << configVars, decompressVars, sweeperVars, mCacheMutex, now,
                    owned, cleaned, elementsToClean, ret, crashed >>

\* The steps of the second calling thread.
WorkerStep ==
    \E t \in Workers :
        \/ \E p \in Payloads, k \in keys, s \in sizes : UpdateElement(t, p, k, s)
        \/ UpdateCheck(t)
        \/ \E k \in keys : GetElement(t, k)
        \/ GetDrop(t)
        \/ CleanupCall(t)
        \/ CleanupLock(t)
        \/ CleanupFresh(t)
        \/ CleanupStale(t)
        \/ CleanupStaleNull(t)
        \/ CleanupUnlock(t)
        \/ CleanCallback(t)
        \/ CleanupReturn(t)

ConcurrentNext ==
    \/ Next
    \/ WorkerStep
    \/ \E t, r \in Callers \cup Workers, p \in Payloads, k \in keys, s \in sizes :
           UpdateElementRaced(t, p, k, s, r)
    \/ SweeperStep

ConcurrentSpec == ConcurrentInit /\ [][ConcurrentNext]_vars

\* ============================================ Challenge-2: Decompress
\* The characters of the inputs: a digit, the two brackets, the escape
\* character and a letter.
Alphabet == { "2", "[", "]", "\\", "x" }

Inputs == UNION { [1..n -> Alphabet] : n \in 0..MaxLen }

DigitChars == << "0", "1", "2", "3", "4", "5", "6", "7", "8", "9" >>

\* std::isdigit(c)
IsDigit(c) == \E n \in 1..10 : DigitChars[n] = c

\* c - '0'
DigitValue(c) == (CHOOSE n \in 1..10 : DigitChars[n] = c) - 1

RECURSIVE Repeat(_, _)
\* for (z = 0; z < N; z++) outStrStream << subString
Repeat(sub, n) == IF n <= 0 THEN << >> ELSE sub \o Repeat(sub, n - 1)

\* The cache plays no part in a run of Decompress: its variables stay as
\* one constructor call leaves them.
NoCache == LRUCache(CHOOSE c \in Configs : c.soft = 0)

\* Decompress(inStr, outStr) is entered: the locals are initialised and the
\* caller's outStr is empty, as DecompressTest passes it.
DecompressInit ==
    /\ NoCache
    /\ inStr \in Inputs
    /\ ix = 1
    /\ N = 0
    /\ repeatSequence = FALSE
    /\ outStrStream = << >>
    /\ subStringStream = << >>
    /\ outStr = << >>
    /\ result = "running"
    /\ nestedOpen = FALSE

\* The loop is in an iteration: i < inputStrLen.
InLoop == result = "running" /\ ix <= Len(inStr)

\* i < lastIndex && inStr[i+1] is one of the characters of S
NextIn(S) == ix < Len(inStr) /\ inStr[ix + 1] \in S

\* if (repeatSequence) subStringStream << c; else outStrStream << c;
Emit(c) ==
    IF repeatSequence
    THEN /\ subStringStream' = Append(subStringStream, c)
         /\ UNCHANGED outStrStream
    ELSE /\ outStrStream' = Append(outStrStream, c)
         /\ UNCHANGED subStringStream

\* A backslash followed by a backslash or a bracket: the character after it
\* is emitted.
DecompressEscape ==
    /\ InLoop
    /\ inStr[ix] = "\\"
    /\ NextIn({ "\\", "[", "]" })
    /\ Emit(inStr[ix + 1])
    /\ ix' = ix + 2
    /\ UNCHANGED << inStr, N, repeatSequence, outStr, result, nestedOpen,
                    lruVars >>

\* A backslash followed by anything else, or by nothing: return false.
DecompressBadEscape ==
    /\ InLoop
    /\ inStr[ix] = "\\"
    /\ ~NextIn({ "\\", "[", "]" })
    /\ result' = "false"
    /\ UNCHANGED << inStr, ix, N, repeatSequence, outStrStream,
                    subStringStream, outStr, nestedOpen, lruVars >>

\* A digit followed by '[': the repeat count and the flag are set, whatever
\* the flag was. nestedOpen records that the flag was already set.
DecompressOpen ==
    /\ InLoop
    /\ IsDigit(inStr[ix])
    /\ NextIn({ "[" })
    /\ N' = DigitValue(inStr[ix])
    /\ repeatSequence' = TRUE
    /\ nestedOpen' = (nestedOpen \/ repeatSequence)
    /\ ix' = ix + 2
    /\ UNCHANGED << inStr, outStrStream, subStringStream, outStr, result,
                    lruVars >>

\* ']' inside a repeat sequence: the substring is written N times.
DecompressClose ==
    /\ InLoop
    /\ inStr[ix] = "]"
    /\ repeatSequence
    /\ outStrStream' = outStrStream \o Repeat(subStringStream, N)
    /\ subStringStream' = << >>
    /\ repeatSequence' = FALSE
    /\ N' = 0
    /\ ix' = ix + 1
    /\ UNCHANGED << inStr, outStr, result, nestedOpen, lruVars >>

\* ']' outside a repeat sequence: return false.
DecompressBadClose ==
    /\ InLoop
    /\ inStr[ix] = "]"
    /\ ~repeatSequence
    /\ result' = "false"
    /\ UNCHANGED << inStr, ix, N, repeatSequence, outStrStream,
                    subStringStream, outStr, nestedOpen, lruVars >>

\* '[' that no digit precedes: return false.
DecompressBadOpen ==
    /\ InLoop
    /\ inStr[ix] = "["
    /\ result' = "false"
    /\ UNCHANGED << inStr, ix, N, repeatSequence, outStrStream,
                    subStringStream, outStr, nestedOpen, lruVars >>

\* Any other character is emitted.
DecompressOther ==
    /\ InLoop
    /\ inStr[ix] \notin { "\\", "[", "]" }
    /\ ~(IsDigit(inStr[ix]) /\ NextIn({ "[" }))
    /\ Emit(inStr[ix])
    /\ ix' = ix + 1
    /\ UNCHANGED << inStr, N, repeatSequence, outStr, result, nestedOpen,
                    lruVars >>

\* After the loop: false inside a repeat sequence, else outStr is set and
\* true is returned.
DecompressReturn ==
    /\ result = "running"
    /\ ix > Len(inStr)
    /\ IF repeatSequence
       THEN result' = "false" /\ UNCHANGED outStr
       ELSE result' = "true" /\ outStr' = outStrStream
    /\ UNCHANGED << inStr, ix, N, repeatSequence, outStrStream,
                    subStringStream, nestedOpen, lruVars >>

DecompressNext ==
    \/ DecompressEscape
    \/ DecompressBadEscape
    \/ DecompressOpen
    \/ DecompressClose
    \/ DecompressBadClose
    \/ DecompressBadOpen
    \/ DecompressOther
    \/ DecompressReturn

DecompressSpec == DecompressInit /\ [][DecompressNext]_vars

\* ================================================================ claims
RECURSIVE SumOfSizes(_)
\* The sum of the sizes of the entries mElementMap holds for the keys in S.
SumOfSizes(S) ==
    IF S = {} THEN 0
    ELSE LET k == CHOOSE x \in S : TRUE
         IN (IF IsEntry(mElementMap[k]) THEN mElementMap[k].size ELSE 0)
            + SumOfSizes(S \ {k})

ActiveKeys == { k \in Keys : IsEntry(mElementMap[k]) }

SizeMapPairs == { mElementSizeMap[i] : i \in 1..Len(mElementSizeMap) }

Last(l) == l[Len(l)]

\* C1: whenever no thread is inside a critical section, the Key Index, the
\* Recency Index and the Size Index hold the same keys, one entry and one
\* (size, key) pair per key, the pair carrying the entry's size (every
\* eviction took the evicted entry's own pair out of the Size Index).
C1_IndicesHoldSameKeys ==
    mCacheMutex = NoThread =>
        /\ ListKeys = MapKeys
        /\ SizeMapKeys = MapKeys
        /\ Len(mElementList) = Cardinality(MapKeys)
        /\ Len(mElementSizeMap) = Cardinality(MapKeys)
        /\ \A k \in ActiveKeys : << mElementMap[k].size, k >> \in SizeMapPairs

\* C2: whenever no thread is inside a critical section, mTotalSize is the sum
\* of the sizes of the active entries.
C2_TotalSizeIsSumOfSizes ==
    mCacheMutex = NoThread => mTotalSize = SumOfSizes(ActiveKeys)

\* C3: when a cleanup call leaves its critical section, mTotalSize is at most
\* the soft limit or the cache holds no entry.
C3_CleanupReachesSoftLimitOrEmpties ==
    [][\A t \in Threads :
          CleanupUnlock(t) =>
              \/ mTotalSize' <= mMaxSizeSoftLimit
              \/ (mElementList' = << >> /\ MapKeys' = {})]_vars

\* C3 witness: a cleanup has left its critical section after evicting an
\* entry, with entries left in the cache and the total within the soft limit.
C3_Witness ==
    \E t \in Threads :
        /\ pc[t] = "cl_clean"
        /\ elementsToClean[t] # << >>
        /\ mElementList # << >>
        /\ mTotalSize <= mMaxSizeSoftLimit

\* C4: every iteration of cleanup's eviction loop removes exactly one entry
\* from the Recency Index (so the loop ends after at most as many iterations
\* as there are entries).
C4_EachIterationRemovesOneEntry ==
    [][\A t \in Threads :
          (/\ pc[t] = "cl_loop"
           /\ CleanupLoopCond
           /\ << cacheVars, crashed >>' # << cacheVars, crashed >>)
          => /\ Len(mElementList') = Len(mElementList) - 1
             /\ ~crashed']_vars

\* C5: the step of updateElement after its critical section goes on to a
\* cleanup pass, with the key just updated as the key to save, when
\* mTotalSize exceeds the hard limit; otherwise updateElement returns, and no
\* entry is removed and no callback collected or fired, even when mTotalSize
\* exceeds the soft limit.
C5_UpdateEvictsIffOverHardLimit ==
    [][\A t \in Threads :
          UpdateCheck(t) =>
              IF mTotalSize > mMaxSizeHardLimit
              THEN /\ pc'[t] = "cl_lock"
                   /\ keyToSaveFromPurge'[t] = Last(mElementList)
              ELSE /\ pc'[t] = "idle"
                   /\ UNCHANGED << cacheVars, cleaned, elementsToClean >>]_vars

\* C5 witness: an update has left its critical section with mTotalSize above
\* the soft limit and within the hard limit.
C5_Witness ==
    \E t \in Threads :
        /\ pc[t] = "upd_check"
        /\ mTotalSize > mMaxSizeSoftLimit
        /\ mTotalSize <= mMaxSizeHardLimit

\* C6: the critical section of updateElement(key, size) leaves one entry for
\* the key, with the given size and the current time, last in the Recency
\* Index, and exactly one pair for the key in the Size Index, carrying the
\* new size; mTotalSize changes by the new size minus the old one.
C6_UpdateInstallsOneEntry ==
    [][\A t \in Threads, p \in Payloads, k \in Keys, s \in Sizes :
          UpdateElement(t, p, k, s) =>
              /\ IsEntry(mElementMap'[k])
              /\ mElementMap'[k].size = s
              /\ mElementMap'[k].time = now
              /\ Last(mElementList') = k
              /\ Cardinality({ i \in 1..Len(mElementList') :
                                  mElementList'[i] = k }) = 1
              /\ Cardinality({ i \in 1..Len(mElementSizeMap') :
                                  mElementSizeMap'[i][2] = k }) = 1
              /\ << s, k >> \in SizeMapPairs'
              /\ mTotalSize' = mTotalSize + s
                     - (IF IsEntry(mElementMap[k])
                        THEN mElementMap[k].size ELSE 0)]_vars

\* C7: a cleanup pass given a key to save from purging ends with that key's
\* entry still in the cache.
C7_ProtectedKeySurvivesCleanup ==
    \A t \in Threads :
        (pc[t] = "cl_clean" /\ keyToSaveFromPurge[t] # NoKey)
        => /\ IsEntry(mElementMap[keyToSaveFromPurge[t]])
           /\ keyToSaveFromPurge[t] \in ListKeys

\* C8: getElement on a key that is not active returns not found and changes
\* neither an index, nor a timestamp, nor mTotalSize.
C8_GetOfInactiveKeyChangesNothing ==
    [][\A t \in Threads, k \in Keys :
          (GetElement(t, k) /\ ~IsEntry(mElementMap[k]))
          => /\ ret'[t] = << k, NotFound >>
             /\ UNCHANGED cacheVars]_vars

\* C8 witness: a getElement returned not found for a key the Key Index does
\* not hold, while the cache holds other entries.
C8_Witness ==
    \E t \in Threads, k \in Keys :
        /\ pc[t] = "get_ret"
        /\ ret[t] = << k, NotFound >>
        /\ mElementMap[k] = Absent
        /\ mElementList # << >>

\* C9: getElement on an active key whose payload is alive returns the payload
\* the entry observes and leaves the entry observing it, so the next
\* getElement on that key returns it again; in particular a getElement on the
\* key whose payload the caller still holds from its previous getElement
\* returns that payload. No getElement changes mTotalSize, the keys of the Key
\* Index or the size of an entry.
C9_RepeatedGetReturnsSamePayload ==
    [][\A t \in Threads, k \in Keys :
          GetElement(t, k) =>
              /\ (pc[t] = "get_ret" /\ ret[t][1] = k /\ ret[t][2] # NotFound)
                     => ret'[t] = ret[t]
              /\ (IsEntry(mElementMap[k]) /\ Alive(mElementMap[k].payload))
                     => /\ ret'[t] = << k, mElementMap[k].payload >>
                        /\ IsEntry(mElementMap'[k])
                        /\ mElementMap'[k].payload = mElementMap[k].payload
              /\ mTotalSize' = mTotalSize
              /\ MapKeys' = MapKeys
              /\ \A j \in ActiveKeys :
                     mElementMap'[j].size = mElementMap[j].size]_vars

\* C9 witness: the caller holds the payload a getElement returned for a key
\* that is active, last in the Recency Index, with other entries before it.
C9_Witness ==
    \E t \in Threads :
        /\ pc[t] = "get_ret"
        /\ ret[t][2] # NotFound
        /\ IsEntry(mElementMap[ret[t][1]])
        /\ Len(mElementList) >= 2
        /\ Last(mElementList) = ret[t][1]

\* C10: getElement on an active key whose payload was released returns not
\* found, and the entry stays in the three indices with its size, counted in
\* mTotalSize, its timestamp refreshed and its place moved to the tail of the
\* Recency Index.
C10_GetOfReleasedPayloadKeepsEntry ==
    [][\A t \in Threads, k \in Keys :
          (/\ GetElement(t, k)
           /\ IsEntry(mElementMap[k])
           /\ ~Alive(mElementMap[k].payload))
          => /\ ret'[t] = << k, NotFound >>
             /\ IsEntry(mElementMap'[k])
             /\ mElementMap'[k].size = mElementMap[k].size
             /\ mElementMap'[k].time = now
             /\ Last(mElementList') = k
             /\ ListKeys' = ListKeys
             /\ MapKeys' = MapKeys
             /\ mElementSizeMap' = mElementSizeMap
             /\ mTotalSize' = mTotalSize]_vars

\* C10 witness: a getElement returned not found for an active key, which is
\* now last in the Recency Index with the current time, behind another entry.
C10_Witness ==
    \E t \in Threads, k \in Keys :
        /\ pc[t] = "get_ret"
        /\ ret[t] = << k, NotFound >>
        /\ IsEntry(mElementMap[k])
        /\ now > 0
        /\ mElementMap[k].time = now
        /\ Len(mElementList) >= 2
        /\ Last(mElementList) = k

\* C11: in a cleanup pass with no key to save, an iteration that finds the
\* head of the Recency Index not stale runs only while mTotalSize exceeds the
\* soft limit and evicts exactly the head: the list loses its first entry,
\* the Key Index that key, and mTotalSize that entry's size; the pass leaves
\* the loop only with mTotalSize within the soft limit or the list empty. So
\* the entries evicted are the shortest prefix of the recency order that
\* brings mTotalSize to the soft limit.
C11_FreshCleanupEvictsShortestPrefix ==
    [][\A t \in Threads :
          (pc[t] = "cl_loop" /\ mCacheMutex = t /\ keyToSaveFromPurge[t] = NoKey)
          => /\ (/\ mElementList # << >>
                 /\ ~FrontIsStale
                 /\ cacheVars' # cacheVars)
                => /\ mTotalSize > mMaxSizeSoftLimit
                   /\ mElementList' = Tail(mElementList)
                   /\ mElementMap' =
                         [mElementMap EXCEPT ![Head(mElementList)] = Absent]
                   /\ mTotalSize' =
                         mTotalSize - mElementMap[Head(mElementList)].size
             /\ pc'[t] # "cl_loop"
                => (mTotalSize <= mMaxSizeSoftLimit \/ mElementList = << >>)]_vars

\* C11 witness: the test's case scaled down (soft limit 3, entries of sizes
\* 1, 1, 2 inserted in this order, none stale): the pass has evicted the
\* first entry only and left the other two, with mTotalSize 3.
C11_Witness ==
    \E t \in Threads :
        /\ pc[t] = "cl_clean"
        /\ keyToSaveFromPurge[t] = NoKey
        /\ mMaxSizeSoftLimit = 3
        /\ mElementList = << 2, 3 >>
        /\ mElementMap[1] = Absent
        /\ mElementMap[2].size = 1
        /\ mElementMap[3].size = 2
        /\ mTotalSize = 3
        /\ elementsToClean[t] = << 1 >>
        /\ now = 0

\* C12: a cleanup iteration that finds the head of the Recency Index stale
\* evicts one active entry whose size is maximal among the active entries,
\* and leaves every other entry, the stale head included, where it was.
C12_StaleCleanupEvictsLargest ==
    [][\A t \in Threads :
          (/\ pc[t] = "cl_loop"
           /\ mCacheMutex = t
           /\ CleanupLoopCond
           /\ FrontIsStale
           /\ << cacheVars, crashed >>' # << cacheVars, crashed >>)
          => \E k \in ActiveKeys :
                /\ \A j \in ActiveKeys :
                       mElementMap[j].size <= mElementMap[k].size
                /\ mElementMap' = [mElementMap EXCEPT ![k] = Absent]
                /\ mElementList' = ListErase(mElementList, k)
                /\ ~crashed']_vars

\* C13: the cleanup capability of a payload object is invoked at most once:
\* no callback is made on a payload whose cleanup() was invoked before.
C13_PayloadCleanedAtMostOnce ==
    [][\A t \in Threads :
          CleanCallback(t) => ~cleaned[Head(elementsToClean[t])]]_vars

\* C14: a payload is collected only inside the loop of a cleanup pass, under
\* mCacheMutex; each callback is made by a thread that is past the loop and
\* does not hold mCacheMutex (so a callback that locks it again cannot block
\* on its own thread), changes no index, and is the only callback of the pass
\* on that payload; and the pass returns only when every collected payload
\* had its callback.
C14_CallbacksAfterUnlock ==
    [][\A t \in Threads :
          /\ Len(elementsToClean'[t]) > Len(elementsToClean[t])
                => (pc[t] = "cl_loop" /\ mCacheMutex = t)
          /\ Len(elementsToClean'[t]) < Len(elementsToClean[t])
                => /\ pc[t] = "cl_clean"
                   /\ mCacheMutex # t
                   /\ elementsToClean'[t] = Tail(elementsToClean[t])
                   /\ cleaned'[Head(elementsToClean[t])]
                   /\ Head(elementsToClean[t])
                          \notin SeqToSet(Tail(elementsToClean[t]))
                   /\ UNCHANGED cacheVars
          /\ pc[t] = "cl_clean"
                => /\ mCacheMutex # t
                   /\ pc'[t] \in {"cl_clean", "idle", "sw_check"}
                   /\ pc'[t] # "cl_clean" => elementsToClean[t] = << >>]_vars

\* C15: once mIsFinished is set the sweeper begins no cleanup pass: it never
\* enters cleanup() with the flag set.
C15_NoCleanupPassAfterShutdown ==
    [][(pc[Sweeper] # "cl_lock" /\ pc'[Sweeper] = "cl_lock")
          => ~mIsFinished]_vars

\* C16: once the destructor has set mIsFinished, the sweeper leaves its loop
\* and the destructor's join returns.
C16_TeardownCompletes ==
    mIsFinished ~> (\E t \in Callers : pc[t] = "destroyed")

\* C17: the steps that read mTotalSize or an index outside a lock_guard, the
\* comparison with the hard limit at the end of updateElement and
\* getNumberOfElements, are never taken while another thread is inside a
\* critical section of the cache.
C17_NoReadDuringCriticalSection ==
    [][\A t \in Threads :
          (UpdateCheck(t) \/ GetNumberOfElements(t))
          => mCacheMutex \in {t, NoThread}]_vars

\* C18: a key stops being active only in an iteration of a cleanup pass, and
\* then the Key Index, the Recency Index and the Size Index hold nothing for
\* it; getElement on it returns not found; it becomes active again only by an
\* updateElement of it, whose entry has that call's size, time and payload,
\* one place in the Recency Index and, as the only pair of the key, that
\* call's pair in the Size Index.
C18_EvictedKeyLeavesNoTrace ==
    [][\A k \in Keys :
          /\ (IsEntry(mElementMap[k]) /\ ~IsEntry(mElementMap'[k]))
                => /\ \E t \in Threads : pc[t] = "cl_loop" /\ mCacheMutex = t
                   /\ mElementMap'[k] = Absent
                   /\ k \notin ListKeys'
                   /\ k \notin SizeMapKeys'
          /\ \A t \in Threads :
                (GetElement(t, k) /\ ~IsEntry(mElementMap[k]))
                => ret'[t] = << k, NotFound >>
          /\ (~IsEntry(mElementMap[k]) /\ IsEntry(mElementMap'[k]))
                => \E t \in Threads, p \in Payloads, s \in Sizes :
                      /\ UpdateElement(t, p, k, s)
                      /\ mElementMap'[k] = Entry(s, now, p)
                      /\ Cardinality({ i \in 1..Len(mElementList') :
                                          mElementList'[i] = k }) = 1
                      /\ { i \in 1..Len(mElementSizeMap') :
                              mElementSizeMap'[i][2] = k }
                            = { SizeMapFindPair(mElementSizeMap', s, k) }]_vars

\* C20: the Recency Index is ordered by non-decreasing last access time: an
\* entry never stands before one with an earlier time. So the head has the
\* least time, and when the head is not stale no entry of the list is.
C20_ListOrderedByAccessTime ==
    /\ \A i, j \in 1..Len(mElementList) :
           i < j => mElementMap[mElementList[i]].time
                       <= mElementMap[mElementList[j]].time
    /\ (mElementList # << >> /\ ~FrontIsStale)
          => \A i \in 1..Len(mElementList) :
                now - mElementMap[mElementList[i]].time <= mTimeThresholdSec

\* C20 witness: a getElement at a later time has moved the oldest of three
\* entries from the head to the tail of the list, behind entries with the
\* earlier time.
C20_Witness ==
    \E t \in Threads :
        /\ pc[t] = "get_ret"
        /\ Len(mElementList) = 3
        /\ ret[t][1] = 1
        /\ mElementList = << 2, 3, 1 >>
        /\ mElementMap[1].time = 1
        /\ mElementMap[2].time = 0
        /\ mElementMap[3].time = 0

\* C19: Decompress does not return true for an input in which a repeat
\* sequence opens (a digit followed by '[') while an earlier one is not yet
\* closed.
C19_NestedRepeatIsRejected ==
    nestedOpen => result # "true"

\* C21: when an iteration of a cleanup pass removes the entry of the key to
\* save, the key leaves the Key Index, the Recency Index and the Size Index,
\* no payload is collected in that iteration and mTotalSize stays as it is;
\* when it removes any other entry, that entry's size is subtracted from
\* mTotalSize and its payload, if alive, is collected once.
C21_ProtectedKeyEviction ==
    [][\A t \in Threads, k \in Keys :
          (/\ pc[t] = "cl_loop"
           /\ mCacheMutex = t
           /\ IsEntry(mElementMap[k])
           /\ ~IsEntry(mElementMap'[k]))
          => IF k = keyToSaveFromPurge[t]
             THEN /\ mElementMap'[k] = Absent
                  /\ k \notin ListKeys'
                  /\ k \notin SizeMapKeys'
                  /\ elementsToClean'[t] = elementsToClean[t]
                  /\ mTotalSize' = mTotalSize
             ELSE /\ mTotalSize' = mTotalSize - mElementMap[k].size
                  /\ elementsToClean'[t] =
                        IF Alive(mElementMap[k].payload)
                        THEN Append(elementsToClean[t], mElementMap[k].payload)
                        ELSE elementsToClean[t]]_vars

\* The place of key k's call in the record l of the calls.
Position(l, k) == MinOf({ i \in 1..Len(l) : l[i][1] = k })

\* The active entries of the largest size.
LargestKeys ==
    { k \in ActiveKeys :
        \A j \in ActiveKeys : mElementMap[j].size <= mElementMap[k].size }

\* C22: a cleanup iteration that finds the head stale evicts, among the
\* active entries of the largest size, the one whose latest updateElement is
\* the oldest (its pair was inserted into the Size Index first); getElement
\* changes neither the Size Index nor that order.
C22_StaleTieBreakIsOldestUpdate ==
    [][/\ \A t \in Threads :
             (/\ pc[t] = "cl_loop"
              /\ mCacheMutex = t
              /\ CleanupLoopCond
              /\ FrontIsStale
              /\ << cacheVars, crashed >>' # << cacheVars, crashed >>)
             => \E k \in LargestKeys :
                   /\ \A j \in LargestKeys :
                          Position(updateOrder, k) <= Position(updateOrder, j)
                   /\ mElementMap' = [mElementMap EXCEPT ![k] = Absent]
                   /\ ~crashed'
       /\ \A t \in Threads, k \in Keys :
             GetElement(t, k)
             => /\ mElementSizeMap' = mElementSizeMap
                /\ updateOrder' = updateOrder]_vars

\* No updateElement and no cleanup call is under way (a thread that crashed
\* in cleanup stays inside it).
NoCallInProgress ==
    \A t \in Threads : pc[t] \notin {"upd_check", "cl_lock", "cl_loop", "cl_clean"}

\* C23: with the soft limit not above the hard limit, whenever no
\* updateElement and no cleanup call is under way, the sizes of the entries
\* in the cache add up to at most the hard limit, in every interleaving of
\* two calling threads and the sweeper, the comparison of mTotalSize after
\* the critical section of updateElement being made without the mutex.
C23_QuiescentSizeWithinHardLimit ==
    (NoCallInProgress /\ mMaxSizeSoftLimit <= mMaxSizeHardLimit)
    => SumOfSizes(ActiveKeys) <= mMaxSizeHardLimit

\* C23 witness: in a run with two calling threads and the sweeper, after an
\* eviction whose callback was made, no call is under way and the cache holds
\* two entries whose sizes add up to the hard limit.
C23_Witness ==
    /\ NoCallInProgress
    /\ mMaxSizeSoftLimit <= mMaxSizeHardLimit
    /\ \A t \in Workers \cup {Sweeper} : pc[t] # "off"
    /\ \E p \in Payloads : cleaned[p]
    /\ SumOfSizes(ActiveKeys) = mMaxSizeHardLimit
    /\ Len(mElementList) = 2

\* The pairs of the Size Index that belong to keys other than k, in order.
OtherPairs(m, k) == SelectSeq(m, LAMBDA pr : pr[2] # k)

\* The step leaves every entry other than that of key k as it was: its size,
\* time and payload, its pairs in the Size Index, and the order of the other
\* entries in the Recency Index.
OthersUntouched(k) ==
    /\ \A j \in Keys \ {k} : mElementMap'[j] = mElementMap[j]
    /\ ListErase(mElementList', k) = ListErase(mElementList, k)
    /\ OtherPairs(mElementSizeMap', k) = OtherPairs(mElementSizeMap, k)

\* C24: the critical section of updateElement(k) and a getElement(k) leave
\* every entry other than k untouched; getElement(k) also leaves the size of
\* k, the Size Index and mTotalSize unchanged.
C24_OtherEntriesUntouched ==
    [][\A t \in Threads, k \in Keys :
          /\ (\E p \in Payloads, s \in Sizes : UpdateElement(t, p, k, s))
                => OthersUntouched(k)
          /\ GetElement(t, k)
                => /\ OthersUntouched(k)
                   /\ IsEntry(mElementMap[k])
                         => /\ IsEntry(mElementMap'[k])
                            /\ mElementMap'[k].size = mElementMap[k].size
                   /\ mElementSizeMap' = mElementSizeMap
                   /\ mTotalSize' = mTotalSize]_vars

\* C24 witness: an updateElement at time 1 has left its critical section and
\* the cache holds its entry behind two others with the access time 0.
C24_Witness ==
    \E t \in Threads :
        /\ pc[t] = "upd_check"
        /\ Len(mElementList) = 3
        /\ Len(mElementSizeMap) = 3
        /\ mElementMap[Last(mElementList)].time = 1
        /\ mElementMap[mElementList[1]].time = 0
        /\ mElementMap[mElementList[2]].time = 0

\* mTotalSize is within the soft limit or the cache is empty.
NothingToEvict == mTotalSize <= mMaxSizeSoftLimit \/ mElementList = << >>

\* C25: a cleanup pass that takes the mutex while mTotalSize is within the
\* soft limit or the cache is empty runs no iteration: it collects nothing,
\* changes no index and not mTotalSize, makes no callback and returns; and a
\* cleanup returns only in such a state, so that a second cleanup right after
\* it is such a pass, stale entries or not.
C25_CleanupWithinSoftLimitIsNoOp ==
    [][\A t \in Threads :
          /\ (CleanupLock(t) /\ NothingToEvict)
                => /\ UNCHANGED << cacheVars, cleaned >>
                   /\ elementsToClean'[t] = << >>
          /\ (pc[t] = "cl_loop" /\ mCacheMutex = t /\ NothingToEvict)
                => /\ UNCHANGED << cacheVars, cleaned, elementsToClean >>
                   /\ pc'[t] \in {"cl_loop", "cl_clean"}
                   /\ ~crashed'
          /\ (pc[t] = "cl_clean" /\ elementsToClean[t] = << >>)
                => /\ UNCHANGED << cacheVars, cleaned, elementsToClean >>
                   /\ pc'[t] \in {"cl_clean", "idle"}
          /\ CleanupReturn(t) => NothingToEvict']_vars

\* C25 witness: a cleanup() call has left its critical section with a stale
\* entry at the head of the list, mTotalSize within the soft limit, nothing
\* collected and no callback made on the live payload.
C25_Witness ==
    \E t \in Threads :
        /\ pc[t] = "cl_clean"
        /\ keyToSaveFromPurge[t] = NoKey
        /\ elementsToClean[t] = << >>
        /\ mElementList # << >>
        /\ FrontIsStale
        /\ mTotalSize > 0
        /\ mTotalSize <= mMaxSizeSoftLimit
        /\ \A p \in Payloads : ~cleaned[p]
        /\ \A k \in ActiveKeys : owned[mElementMap[k].payload]

\* The payload passed to the latest updateElement of key k.
PassedPayload(k) == updateOrder[Position(updateOrder, k)][2]

\* C26: the entry of a key keeps the payload reference it was inserted with
\* for as long as the key stays in the cache: an updateElement of a key that
\* is in the cache does not replace it, whatever payload is passed; so
\* getElement returns that payload, or not found when it is gone, and an
\* eviction of the key collects that payload and no other for its callback.
C26_UpdateKeepsFirstPayload ==
    [][\A k \in Keys :
          IsEntry(mElementMap[k])
          => /\ IsEntry(mElementMap'[k])
                => mElementMap'[k].payload = mElementMap[k].payload
             /\ \A t \in Threads :
                   /\ GetElement(t, k)
                         => ret'[t][2] \in {mElementMap[k].payload, NotFound}
                   /\ ~IsEntry(mElementMap'[k])
                         => elementsToClean'[t]
                               \in {elementsToClean[t],
                                    Append(elementsToClean[t],
                                           mElementMap[k].payload)}]_vars

\* C26 witness: a getElement has returned payload 1 for a key whose latest
\* updateElement passed payload 2: the entry still observes the payload of
\* the first call.
C26_Witness ==
    \E t \in Threads, k \in Keys :
        /\ pc[t] = "get_ret"
        /\ ret[t] = << k, 1 >>
        /\ IsEntry(mElementMap[k])
        /\ mElementMap[k].payload = 1
        /\ PassedPayload(k) = 2

\* What mTotalSize counts beyond the sizes of the entries in the cache.
Excess == mTotalSize - SumOfSizes(ActiveKeys)

\* The step is an iteration of t's cleanup pass that removes the entry of
\* key k, the key to save.
EvictsProtected(t, k) ==
    /\ pc[t] = "cl_loop"
    /\ mCacheMutex = t
    /\ keyToSaveFromPurge[t] = k
    /\ IsEntry(mElementMap[k])
    /\ ~IsEntry(mElementMap'[k])

\* C27: mTotalSize is never below the sum of the sizes of the entries in the
\* cache, and the excess never decreases: an iteration that evicts the key to
\* save adds that entry's size to it, and no other step changes it.
C27_ExcessOnlyGrows ==
    [][/\ Excess >= 0
       /\ Excess' >= Excess
       /\ \A t \in Threads, k \in Keys :
             EvictsProtected(t, k) => Excess' = Excess + mElementMap[k].size
       /\ Excess' # Excess
             => \E t \in Threads, k \in Keys : EvictsProtected(t, k)]_vars

\* C27 witness: after an eviction of the key to save, the cache holds an
\* entry again and mTotalSize counts more than the sizes in the cache.
C27_Witness ==
    /\ Excess > 0
    /\ mElementList # << >>
    /\ SumOfSizes(ActiveKeys) > 0
    /\ \A t \in Threads : pc[t] \in {"idle", "off"}

\* Thread t is inside an updateElement (its critical section done) or inside
\* the cleanup that updateElement called.
InUpdate(t) ==
    /\ pc[t] \in {"upd_check", "cl_lock", "cl_loop", "cl_clean"}
    /\ keyToSaveFromPurge[t] # NoKey

\* The entry that t's updateElement installed is in the cache and its size
\* alone exceeds the hard limit.
Oversized(t) ==
    /\ InUpdate(t)
    /\ IsEntry(mElementMap[keyToSaveFromPurge[t]])
    /\ mElementMap[keyToSaveFromPurge[t]].size > mMaxSizeHardLimit

\* An entry larger than the hard limit was evicted as the key to save, or
\* evictions of keys to save have added up to as much: mTotalSize stays
\* above the hard limit whatever the cache holds.
Inflated == Excess > mMaxSizeHardLimit

\* C28: with the soft limit not above the hard limit, an updateElement whose
\* entry alone exceeds the hard limit goes on to cleanup and returns only
\* with the cache empty and mTotalSize above the hard limit, its entry gone
\* as the key to save; from then on mTotalSize never decreases and stays
\* above the hard limit, the cache is empty whenever no call is under way,
\* and every later updateElement has its entry evicted as the key to save
\* before it returns, no payload being collected and no callback made.
C28_OversizedEntryEmptiesCacheForever ==
    [][mMaxSizeSoftLimit <= mMaxSizeHardLimit
       => \A t \in Threads :
             /\ \A p \in Payloads, k \in Keys, s \in Sizes :
                   (UpdateElement(t, p, k, s)
                    /\ (s > mMaxSizeHardLimit \/ Inflated))
                   => mTotalSize' > mMaxSizeHardLimit
             /\ (Oversized(t) \/ (InUpdate(t) /\ Inflated))
                   => /\ ~crashed'
                      /\ pc'[t] \in {"upd_check", "cl_lock", "cl_loop",
                                     "cl_clean", "idle"}
                      /\ pc'[t] = "idle"
                            => /\ mElementList' = << >>
                               /\ ActiveKeys' = {}
                               /\ mTotalSize' > mMaxSizeHardLimit
                               /\ Inflated'
             /\ Inflated
                   => /\ Inflated'
                      /\ NoCallInProgress
                            => (mElementList = << >> /\ ActiveKeys = {})
             /\ (Inflated /\ InUpdate(t)
                 /\ ListKeys \subseteq {keyToSaveFromPurge[t]}
                 /\ elementsToClean[t] = << >>)
                   => /\ mTotalSize' >= mTotalSize
                      /\ UNCHANGED << cleaned, elementsToClean >>
                      /\ \A k \in Keys :
                            (IsEntry(mElementMap[k]) /\ ~IsEntry(mElementMap'[k]))
                            => EvictsProtected(t, k)]_vars

\* C29: whenever an iteration of cleanup is about to take the stale branch,
\* the Size Index is not empty and the key of the pair the branch selects,
\* the first pair of the largest size, has an entry in the Key Index and a
\* node in the Recency Index (so the lookup yields an entry and no node is
\* erased twice).
C29_StaleSelectionIsActive ==
    \A t \in Threads :
        (/\ pc[t] = "cl_loop"
         /\ mCacheMutex = t
         /\ ~crashed
         /\ CleanupLoopCond
         /\ FrontIsStale)
        => /\ mElementSizeMap # << >>
           /\ IsEntry(mElementMap[mElementSizeMap[StaleIndex][2]])
           /\ mElementSizeMap[StaleIndex][2] \in ListKeys

\* The sweeper is in the cleanup() its loop called, callbacks included.
InSweeperPass == pc[Sweeper] \in {"cl_lock", "cl_loop", "cl_clean"}

\* Thread t is inside the destructor and has not left it.
InTeardown(t) == pc[t] \in {"dt_lock", "dt_notify", "dt_join"}

\* The holder u of mCacheMutex can go on: to its next iteration, or to the
\* end of its critical section.
CanRelease(u) ==
    ENABLED (\/ CleanupFresh(u)
             \/ CleanupStale(u)
             \/ CleanupStaleNull(u)
             \/ CleanupUnlock(u))

\* C30: mCleanerMutex is taken before mCacheMutex and never after it. The
\* sweeper holds mCleanerMutex during the whole of its cleanup pass, the
\* callbacks included; the destructor holds neither mutex outside
\* endCleaningThread and never mCacheMutex; the holder of mCacheMutex is
\* inside a critical section of cleanup and is not waiting for
\* mCleanerMutex. So no thread waits for ever on another: a thread that
\* cannot take a step waits on one that can. And mIsFinished is not set
\* while the sweeper is in a cleanup pass.
C30_LockOrderAndNoDeadlock ==
    /\ [](~crashed =>
            /\ InSweeperPass => mCleanerMutex = Sweeper
            /\ mCleanerMutex \in {Sweeper, NoThread}
            /\ \A t \in Threads :
                  /\ mCacheMutex = t => (pc[t] = "cl_loop" /\ CanRelease(t))
                  /\ InTeardown(t) => mCacheMutex # t
            /\ (pc[Sweeper] \notin {"off", "sw_done"} /\ ~ENABLED SweeperStep)
                  => /\ pc[Sweeper] = "cl_lock"
                     /\ mCacheMutex \in Callers \cup Workers
            /\ \A t \in Callers :
                  (InTeardown(t) /\ ~ENABLED DestructorStep)
                  => \/ ENABLED SweeperStep
                     \/ mCacheMutex \in (Callers \cup Workers) \ {t})
    /\ [][mIsFinished' # mIsFinished
             => (~InSweeperPass /\ mCleanerMutex = NoThread)]_vars

\* C30 witness: the destructor waits for mCleanerMutex while the sweeper, in
\* the middle of its cleanup pass, holds mCleanerMutex and mCacheMutex.
C30_Witness ==
    /\ \E t \in Callers : pc[t] = "dt_lock"
    /\ pc[Sweeper] = "cl_loop"
    /\ mCleanerMutex = Sweeper
    /\ mCacheMutex = Sweeper
    /\ elementsToClean[Sweeper] # << >>
    /\ ~mIsFinished

====
